---- MODULE Spec2Model ----
(***************************************************************************)
(* EZVIZ HP7 integration: the config entry's setup and unload, the polling *)
(* coordinator, the status normaliser and the alarm-pulse binary sensors,  *)
(* as one state machine over a discrete clock of one-second ticks.         *)
(***************************************************************************)
EXTENDS Integers, Sequences, FiniteSets, TLC

VARIABLES now, apis, registry, loaded, data, last_update_success, refresh_at,
          update_started, jobs, last_trigger, prev_alarm_time, off_unsub,
          published, loop_timers, consumed, last_op

\* coordinator: which api (index in apis) the coordinator of the entities set
\* up last polls; reloading: async_reload_entry has awaited async_unload_entry
\* and calls async_setup_entry next
VARIABLES coordinator, reloading

\* one Hp7Api object on its own: the object, the remote_unlock calls its last
\* operation made, and how that operation ended
VARIABLES api_obj, api_calls, api_ret

\* one call of get_status on its own: what EzvizCamera.status gave, and what
\* get_status made of it
VARIABLES status_in, status_out

\* one call of the camera entity's async_camera_image on its own: cam_in is
\* the coordinator's data, the api's token and what the HTTP request does,
\* cam_out the outcome of the call
VARIABLES cam_in, cam_out

camera_vars == <<cam_in, cam_out>>

\* the user step of one configuration flow on its own: flow_in is what the
\* cloud does to the submitted credentials (client construction, login, the
\* device list), flow_out where the flow stands and what it showed last
VARIABLES flow_in, flow_out

flow_vars == <<flow_in, flow_out>>

status_vars == <<status_in, status_out>>

api_vars == <<api_obj, api_calls, api_ret>>

entry_vars == <<now, apis, registry, loaded, data, last_update_success,
                refresh_at, update_started, jobs, last_trigger,
                prev_alarm_time, off_unsub, published, loop_timers, consumed,
                last_op, coordinator, reloading>>

\* the variables of the objects taken on their own, which the entry's
\* operations leave alone
unit_vars == <<api_vars, status_vars, camera_vars, flow_vars>>

\* the variables the operations of the Hp7Api object on its own leave alone
non_api_vars == <<entry_vars, status_vars, camera_vars, flow_vars>>

\* the variables the call of get_status on its own leaves alone
non_status_vars == <<entry_vars, api_vars, camera_vars, flow_vars>>

\* the variables the call of async_camera_image on its own leaves alone
non_camera_vars == <<entry_vars, api_vars, status_vars, flow_vars>>

\* the variables the user step of the configuration flow leaves alone
non_flow_vars == <<entry_vars, api_vars, status_vars, camera_vars>>

vars == <<entry_vars, api_vars, status_vars, camera_vars, flow_vars>>

(* ---------------------------- program constants ----------------------- *)

PULSE_SECONDS == 3

UPDATE_INTERVAL_SEC == 2

DEFAULT_DOOR_LOCK_NO == 2

DEFAULT_GATE_LOCK_NO == 1

ALARM_FIELD == "alarm_name"

ALARM_TIME_FIELD == "last_alarm_time"

\* an ALARM_MAP in which the doorbell's alarm name also opens the gate sensor
ALARM_MAP_SharedName ==
  [smart_detection_alarm |-> {"Smart Detection Alarm"},
   intelligent_detection_alarm |-> {"Intelligent Detection Alarm"},
   doorbell_ringing |-> {"Your doorbell is ringing"},
   gate_open |-> {"EZVIZ app open the gate", "Monitor open the gate",
                  "Your doorbell is ringing"},
   unlock_lock |-> {"EZVIZ app unlock the lock", "Monitor unlock the lock"}]

\* translation_key |-> match_values of each alarm sensor
ALARM_MAP ==
  [smart_detection_alarm |-> {"Smart Detection Alarm"},
   intelligent_detection_alarm |-> {"Intelligent Detection Alarm"},
   doorbell_ringing |-> {"Your doorbell is ringing"},
   gate_open |-> {"EZVIZ app open the gate", "Monitor open the gate"},
   unlock_lock |-> {"EZVIZ app unlock the lock", "Monitor unlock the lock"}]

Categories == DOMAIN ALARM_MAP

(* ------------------------------- bounds -------------------------------- *)

\* the clock runs from 0 to MaxTime seconds
MaxTime == 6

\* how many times the entry is set up successfully
MaxSetups == 2

\* how many times the Hp7Api object on its own logs out
MaxCloses == 2

(* ------------------------- values of the model ------------------------- *)

\* Python's None, as a field value of a dict
None == "None"

\* a null timestamp or a null timer handle
NoTime == -1

\* the dict {}
EmptyDict == [k \in {} |-> None]

\* Python's None where a dict is expected
NoneDict == [unset |-> None]

\* coordinator.data before any refresh (None)
NoData == NoneDict

\* alarm names the cloud reports in last_alarm_type_name
AlarmNames ==
  {"Your doorbell is ringing", "Monitor open the gate"}

\* alarm times the cloud reports in last_alarm_time
AlarmTimes == {"2024-01-01 10:00:00", "2024-01-01 10:05:00"}

\* raw camera status payloads returned by EzvizCamera.status
RawStatuses ==
  [last_alarm_type_name : AlarmNames \cup {None},
   last_alarm_time : AlarmTimes \cup {None}]

\* the fields of a raw camera status that get_status reads, with a sample
\* value of each (integers are written as their literals)
RawSample ==
  [name |-> "HP7", version |-> "V5.3.0", upgrade_available |-> "False",
   status |-> "1", wan_ip |-> "203.0.113.7", PIR_Status |-> "0",
   Seconds_Last_Trigger |-> "12",
   last_alarm_time |-> "2024-01-01 10:00:00",
   last_alarm_pic |-> "https://img.example/alarm.jpg",
   last_alarm_type_name |-> "Your doorbell is ringing",
   local_ip |-> "192.168.1.20"]

\* values of Motion_Trigger in a raw camera status
MotionValues == {"0", "1"}

\* values of WIFI in a raw camera status: null, an empty dict, a dict
\* without address, a full dict
WifiValues ==
  {NoneDict, EmptyDict, [ssid |-> "home", signal |-> "80"],
   [ssid |-> "home", signal |-> "80", address |-> "192.168.1.21"]}

\* raw camera statuses with any subset of the fields missing
PartialStatuses ==
  {[k \in S |-> IF k = "WIFI" THEN w
                ELSE IF k = "Motion_Trigger" THEN mt
                ELSE RawSample[k]] :
     S \in SUBSET (DOMAIN RawSample \cup {"Motion_Trigger", "WIFI"}),
     mt \in MotionValues, w \in WifiValues}

(* ------------------------------ api.py --------------------------------- *)

\* dict.get(key)
Get(d, k) == IF k \in DOMAIN d THEN d[k] ELSE None

\* Python truthiness of a field value (None and "" are falsy)
Truthy(v) == v # None /\ v # ""

\* a or b
PyOr(a, b) == IF Truthy(a) THEN a ELSE b

\* cam_status.get("WIFI", {})
WifiInfo(cam_status) ==
  IF "WIFI" \in DOMAIN cam_status THEN cam_status["WIFI"] ELSE EmptyDict

\* whether building the dict raises: wifi_info.get on None (AttributeError)
NormalizeRaises(cam_status) == WifiInfo(cam_status) = NoneDict

\* the dict get_status builds from the raw camera status
NormalizedStatus(cam_status) ==
  LET wifi_info == WifiInfo(cam_status)
  IN [name |-> Get(cam_status, "name"),
      version |-> Get(cam_status, "version"),
      upgrade_available |-> Get(cam_status, "upgrade_available"),
      status |-> Get(cam_status, "status"),
      wan_ip |-> Get(cam_status, "wan_ip"),
      pir_status |-> Get(cam_status, "PIR_Status"),
      motion |-> Get(cam_status, "Motion_Trigger"),
      seconds_last_trigger |-> Get(cam_status, "Seconds_Last_Trigger"),
      last_alarm_time |-> Get(cam_status, "last_alarm_time"),
      last_alarm_pic |-> Get(cam_status, "last_alarm_pic"),
      alarm_name |-> Get(cam_status, "last_alarm_type_name"),
      ssid |-> Get(wifi_info, "ssid"),
      signal |-> Get(wifi_info, "signal"),
      local_ip |-> PyOr(Get(cam_status, "local_ip"), Get(wifi_info, "address"))]

\* what get_status returns when the camera status call raises
GetStatusOnError == EmptyDict

\* outcomes of one EzvizCamera.status call: a raw status, or an exception
Fetches ==
  {[ok |-> TRUE, raw |-> r] : r \in RawStatuses}
    \cup {[ok |-> FALSE, raw |-> EmptyDict]}

\* get_status once ensure_client has returned
GetStatusResult(fetch) ==
  IF fetch.ok /\ ~NormalizeRaises(fetch.raw)
  THEN NormalizedStatus(fetch.raw)
  ELSE GetStatusOnError

FetchKind(fetch) == IF fetch.ok THEN "ok" ELSE "error"

\* Hp7Api.__init__: no client yet; token: whether a cached token was passed;
\* logouts counts the calls of the client's logout
Hp7Api(token) ==
  [client |-> FALSE, token |-> token, logouts |-> 0,
   supports_door |-> TRUE, supports_gate |-> TRUE]

\* what ensure_client did: whether it raised, the api afterwards and whether
\* it called the client's login
Ensured(raised, a, login) == [raised |-> raised, api |-> a, login |-> login]

\* ensure_client without the test for a held token: a new client logs in
EnsureClientAlwaysLogin(api, construct_ok, login_ok) ==
  IF api.client THEN Ensured(FALSE, api, FALSE)
  ELSE IF ~construct_ok THEN Ensured(TRUE, api, FALSE)
  ELSE IF login_ok
  THEN Ensured(FALSE, [api EXCEPT !.client = TRUE, !.token = TRUE], TRUE)
  ELSE Ensured(TRUE, [api EXCEPT !.client = TRUE], TRUE)

\* ensure_client: nothing to do when a client is held; else the client is
\* built (construct_ok: whether EzvizClient(...) returns) and, when no token
\* is held, logged in (login_ok: whether login returns a token). A failed
\* login leaves the client built and raises
EnsureClient(api, construct_ok, login_ok) ==
  IF api.client THEN Ensured(FALSE, api, FALSE)
  ELSE IF ~construct_ok THEN Ensured(TRUE, api, FALSE)
  ELSE IF api.token THEN Ensured(FALSE, [api EXCEPT !.client = TRUE], FALSE)
  ELSE IF login_ok
  THEN Ensured(FALSE, [api EXCEPT !.client = TRUE, !.token = TRUE], TRUE)
  ELSE Ensured(TRUE, [api EXCEPT !.client = TRUE], TRUE)

\* close that logs out and keeps the client handle
CloseKeepsClient(api) ==
  IF api.client THEN [api EXCEPT !.logouts = @ + 1] ELSE api

\* Hp7Api.close
Close(api) ==
  IF api.client
  THEN [api EXCEPT !.client = FALSE, !.logouts = @ + 1]
  ELSE api

\* the outcome of one api operation: whether it raised, what it returned,
\* the api afterwards, whether the client's login was called and the
\* remote_unlock calls made (lock number, success)
ApiResult(raised, value, a, login, calls) ==
  [raised |-> raised, value |-> value, api |-> a, login |-> login,
   calls |-> calls]

\* _try_unlock (unlock_ok: whether remote_unlock returns)
TryUnlock(a, lock_no, construct_ok, login_ok, unlock_ok) ==
  LET e == EnsureClient(a, construct_ok, login_ok)
  IN IF e.raised THEN ApiResult(TRUE, FALSE, e.api, e.login, <<>>)
     ELSE IF ~e.api.token \/ ~e.api.client
     THEN ApiResult(FALSE, FALSE, e.api, e.login, <<>>)
     ELSE ApiResult(FALSE, unlock_ok, e.api, e.login,
                    <<[lock_no |-> lock_no, ok |-> unlock_ok]>>)

\* _try_unlock(first) or _try_unlock(second)
TryUnlockOr(a, first, second, construct_ok, login_ok, ok1, ok2) ==
  LET r1 == TryUnlock(a, first, construct_ok, login_ok, ok1)
  IN IF r1.raised \/ r1.value THEN r1
     ELSE LET r2 == TryUnlock(r1.api, second, construct_ok, login_ok, ok2)
          IN [r2 EXCEPT !.calls = r1.calls \o @, !.login = r1.login \/ @]

\* unlock_door trying the gate's lock first
UnlockDoorGateFirst(a, construct_ok, login_ok, ok1, ok2) ==
  TryUnlockOr(a, DEFAULT_GATE_LOCK_NO, DEFAULT_DOOR_LOCK_NO,
              construct_ok, login_ok, ok1, ok2)

\* unlock_door
UnlockDoor(a, construct_ok, login_ok, ok1, ok2) ==
  TryUnlockOr(a, DEFAULT_DOOR_LOCK_NO, DEFAULT_GATE_LOCK_NO,
              construct_ok, login_ok, ok1, ok2)

\* unlock_gate
UnlockGate(a, construct_ok, login_ok, ok1, ok2) ==
  TryUnlockOr(a, DEFAULT_GATE_LOCK_NO, DEFAULT_DOOR_LOCK_NO,
              construct_ok, login_ok, ok1, ok2)

\* login: ensure_client, then True
Login(a, construct_ok, login_ok) ==
  LET e == EnsureClient(a, construct_ok, login_ok)
  IN ApiResult(e.raised, ~e.raised, e.api, e.login, <<>>)

\* what the device-info probe of detect_capabilities may do: return the
\* device, return nothing for the serial, raise an error the method catches
\* (KeyError, AttributeError, ValueError) or raise another error
Probes == {"device", "nothing", "caught", "uncaught"}

\* detect_capabilities taking the capabilities from the probe
DetectCapabilitiesFromProbe(a, construct_ok, login_ok, probe) ==
  LET e == EnsureClient(a, construct_ok, login_ok)
  IN IF e.raised THEN ApiResult(TRUE, FALSE, e.api, e.login, <<>>)
     ELSE IF probe = "uncaught"
     THEN ApiResult(TRUE, FALSE, e.api, e.login, <<>>)
     ELSE ApiResult(FALSE, FALSE,
                    [e.api EXCEPT !.supports_door = (probe = "device"),
                                  !.supports_gate = (probe = "device")],
                    e.login, <<>>)

\* detect_capabilities: ensure_client, the probe, then both capabilities are
\* set to True
DetectCapabilities(a, construct_ok, login_ok, probe) ==
  LET e == EnsureClient(a, construct_ok, login_ok)
  IN IF e.raised THEN ApiResult(TRUE, FALSE, e.api, e.login, <<>>)
     ELSE IF probe = "uncaught"
     THEN ApiResult(TRUE, FALSE, e.api, e.login, <<>>)
     ELSE ApiResult(FALSE, FALSE,
                    [e.api EXCEPT !.supports_door = TRUE,
                                  !.supports_gate = TRUE],
                    e.login, <<>>)

\* the buttons button.async_setup_entry creates for an api
Buttons(a) ==
  (IF a.supports_gate THEN {"unlock_gate"} ELSE {})
    \cup (IF a.supports_door THEN {"unlock_door"} ELSE {})

(* ---------------------------- config_flow.py ---------------------------- *)

\* _looks_like_long_serial
LooksLikeLongSerial(serial) == serial.has_dash \/ serial.length >= 12

\* the exception api.login raises on a new Hp7Api without token, or "none":
\* ensure_client turns every error of the construction and of the login into
\* RuntimeError
LoginRaises(construct_ok, login) ==
  IF EnsureClient(Hp7Api(FALSE), construct_ok, login = "token").raised
  THEN "RuntimeError"
  ELSE "none"

\* the exception list_devices raises, or "none": it catches KeyError,
\* AttributeError and ValueError and returns {}
ListDevicesRaises(devices) ==
  IF devices.kind = "uncaught" THEN "Exception" ELSE "none"

\* the serials list_devices returns
ListDevices(devices) == IF devices.kind = "ok" THEN devices.serials ELSE {}

\* the options of the serial selection: list_devices gives each device its
\* name only, so a serial is shown only when it looks like a long one
SerialOptions(serials) ==
  {s.text : s \in {x \in serials : LooksLikeLongSerial(x)}}

\* the except clauses of async_step_user
FlowError(exc) == IF exc = "ValueError" THEN "auth" ELSE "cannot_connect"

\* async_step_user (submitted: whether user_input is given; env: what the
\* cloud does)
StepUser(submitted, env) ==
  LET login_exc == LoginRaises(env.construct_ok, env.login)
      list_exc == ListDevicesRaises(env.devices)
      options == SerialOptions(ListDevices(env.devices))
      form(errors) == [kind |-> "form", errors |-> errors,
                       cached_creds |-> FALSE, options |-> {}]
  IN IF ~submitted THEN form("none")
     ELSE IF login_exc # "none" THEN form(FlowError(login_exc))
     ELSE IF list_exc # "none" THEN form(FlowError(list_exc))
     ELSE [kind |-> IF options # {} THEN "pick_serial" ELSE "enter_serial",
           errors |-> "none", cached_creds |-> TRUE, options |-> options]

(* ------------------------------ camera.py ------------------------------- *)

\* not token
NoToken(token) == token = NoneDict \/ token = EmptyDict

\* the Authorization header async_camera_image sends with token, or None
Authorization(token) ==
  IF Truthy(Get(token, "access_token"))
  THEN "Bearer " \o token.access_token
  ELSE None

\* async_camera_image without its except clauses: a timeout, another error of
\* the request or of reading the image propagates
CameraImageUncaught(d, token, http) ==
  LET url == Get(IF d = NoData \/ d = EmptyDict THEN EmptyDict ELSE d,
                 "last_alarm_pic")
  IN IF ~Truthy(url) THEN [raised |-> FALSE, image |-> None, requests |-> 0,
                           authorization |-> None]
     ELSE IF NoToken(token)
     THEN [raised |-> FALSE, image |-> None, requests |-> 0,
           authorization |-> None]
     ELSE IF http.kind # "response"
     THEN [raised |-> TRUE, image |-> None, requests |-> 1,
           authorization |-> Authorization(token)]
     ELSE IF http.status = "200"
     THEN [raised |-> ~http.body_ok,
           image |-> IF http.body_ok THEN "jpeg" ELSE None, requests |-> 1,
           authorization |-> Authorization(token)]
     ELSE [raised |-> FALSE, image |-> None, requests |-> 1,
           authorization |-> Authorization(token)]

\* async_camera_image: no URL in the data, no request; no token, no request;
\* else one request: the body of a 200 response is the image, and any other
\* status, a body that cannot be read, a timeout and any other error give
\* None
CameraImage(d, token, http) ==
  LET url == Get(IF d = NoData \/ d = EmptyDict THEN EmptyDict ELSE d,
                 "last_alarm_pic")
  IN IF ~Truthy(url) THEN [raised |-> FALSE, image |-> None, requests |-> 0,
                           authorization |-> None]
     ELSE IF NoToken(token)
     THEN [raised |-> FALSE, image |-> None, requests |-> 0,
           authorization |-> None]
     ELSE IF http.kind # "response"
     THEN [raised |-> FALSE, image |-> None, requests |-> 1,
           authorization |-> Authorization(token)]
     ELSE IF http.status = "200" /\ http.body_ok
     THEN [raised |-> FALSE, image |-> "jpeg", requests |-> 1,
           authorization |-> Authorization(token)]
     ELSE [raised |-> FALSE, image |-> None, requests |-> 1,
           authorization |-> Authorization(token)]

(* -------------------------- binary_sensor.py --------------------------- *)

\* self.coordinator.data or {}
DataOrEmpty(d) == IF d = NoData \/ d = EmptyDict THEN EmptyDict ELSE d

\* is_on with the pulse still on when PULSE_SECONDS have passed
IsOnInclusive(lt, t) == IF lt = NoTime THEN FALSE ELSE (t - lt) <= PULSE_SECONDS

\* Hp7BinaryAlarm.is_on at time t for a sensor last triggered at lt
IsOn(lt, t) == IF lt = NoTime THEN FALSE ELSE (t - lt) < PULSE_SECONDS

\* ShouldTrigger without the comparison with the consumed alarm time
ShouldTriggerNoDedupe(c, d, prev) ==
  LET current_alarm == Get(DataOrEmpty(d), ALARM_FIELD)
      current_alarm_time == Get(DataOrEmpty(d), ALARM_TIME_FIELD)
  IN /\ current_alarm \in ALARM_MAP[c]
     /\ current_alarm_time # None

\* ShouldTrigger without the test that the alarm time is not None
ShouldTriggerNullTime(c, d, prev) ==
  LET current_alarm == Get(DataOrEmpty(d), ALARM_FIELD)
      current_alarm_time == Get(DataOrEmpty(d), ALARM_TIME_FIELD)
  IN /\ current_alarm \in ALARM_MAP[c]
     /\ current_alarm_time # prev

\* ShouldTrigger of a sensor that lets the first alarm it sees pass: nothing
\* triggers while no alarm time has been consumed
ShouldTriggerSkippingFirst(c, d, prev) ==
  LET current_alarm == Get(DataOrEmpty(d), ALARM_FIELD)
      current_alarm_time == Get(DataOrEmpty(d), ALARM_TIME_FIELD)
  IN /\ current_alarm \in ALARM_MAP[c]
     /\ current_alarm_time # None
     /\ prev # None
     /\ current_alarm_time # prev

\* the condition under which _handle_coordinator_update triggers sensor c
ShouldTrigger(c, d, prev) ==
  LET current_alarm == Get(DataOrEmpty(d), ALARM_FIELD)
      current_alarm_time == Get(DataOrEmpty(d), ALARM_TIME_FIELD)
  IN /\ current_alarm \in ALARM_MAP[c]
     /\ current_alarm_time # None
     /\ current_alarm_time # prev

\* a pulse-reset callback in the event loop, of sensor c of generation g
Timer(g, c, deadline) == [gen |-> g, cat |-> c, deadline |-> deadline]

\* a callback armed one second late
TimerDeadlineLate(t) == t + PULSE_SECONDS + 1

\* when a callback armed at time t by async_call_later(PULSE_SECONDS) is due
TimerDeadline(t) == t + PULSE_SECONDS

\* _schedule_state_update without the cancellation of the pending callback
ScheduleStateUpdateStacking(timers, unsub, g, c, t) ==
  timers \cup {Timer(g, c, TimerDeadline(t))}

\* _schedule_state_update of sensor c of generation g at time t: the event
\* loop's timers afterwards (the new handle is the new timer's deadline)
ScheduleStateUpdate(timers, unsub, g, c, t) ==
  LET kept == IF unsub # NoTime THEN timers \ {Timer(g, c, unsub)} ELSE timers
  IN kept \cup {Timer(g, c, TimerDeadline(t))}

\* translation_key |-> key in the coordinator's data of each simple sensor
SIMPLE_MAP == [motion_trigger |-> "Motion_Trigger"]

\* str.strip().lower() of the sample strings that it changes
StripLower(s) ==
  LET sample == [x \in {" ON ", "Yes"} |-> IF x = " ON " THEN "on" ELSE "yes"]
  IN IF s \in DOMAIN sample THEN sample[s] ELSE s

\* _to_bool: a bool is itself, None is False, a number is True unless 0, a
\* string is True when stripped and lowered it is one of the true words
ToBool(value) ==
  IF value \in {"True", "False"} THEN value = "True"
  ELSE IF value = None THEN FALSE
  ELSE IF value \in {"0", "1", "2"} THEN value # "0"
  ELSE StripLower(value) \in {"1", "true", "on", "yes", "y"}

\* Hp7BinarySimple.is_on of the sensor with data key key, on data d
SimpleIsOn(d, key) == ToBool(Get(DataOrEmpty(d), key))

\* the state async_write_ha_state publishes for an alarm sensor
EntityState(available, lt, t) ==
  IF ~available THEN "unavailable" ELSE IF IsOn(lt, t) THEN "on" ELSE "off"

(* ------------------- coordinator.py and __init__.py -------------------- *)

\* get_status: only ensure_client may raise; the errors of the status call
\* itself are caught and give {}
GetStatus(api, construct_ok, login_ok, fetch) ==
  LET e == EnsureClient(api, construct_ok, login_ok)
  IN [raised |-> e.raised, api |-> e.api,
      value |-> IF e.raised THEN EmptyDict ELSE GetStatusResult(fetch)]

\* a refresh timer of fixed rate, armed again as soon as it fires
RefreshAtFixedRate(t) == t + UPDATE_INTERVAL_SEC

\* the refresh timer while _async_update_data runs: the timer that fired at
\* time t is not armed again before the update has returned
RefreshAtWhileUpdating(t) == NoTime

\* the refresh timer armed when an update has returned at time t
RefreshAtAfterUpdate(t) == t + UPDATE_INTERVAL_SEC

\* the operation that ran last: its name, how it ended, what the status call
\* gave, the sensors it triggered, and the sensors that were on when it began
Op(op, outcome, fetch, trig, active) ==
  [op |-> op, outcome |-> outcome, fetch |-> fetch, trig |-> trig,
   active |-> active]

\* the current generation: the entities and the coordinator of the last setup
\* that set up the platforms
Gen == coordinator

\* the updates of generation g's coordinator that are in flight
InFlight(g) == {i \in DOMAIN jobs : jobs[i].gen = g}

RemoveAt(seq, i) == SubSeq(seq, 1, i - 1) \o SubSeq(seq, i + 1, Len(seq))

FreshSensors(v) == [c \in Categories |-> v]

\* how an operation of the Hp7Api object on its own ended: whether it raised,
\* what it returned, whether it called the client's login and whether it
\* built the client
ApiRet(op, raised, value, login, created) ==
  [op |-> op, raised |-> raised, value |-> value, login |-> login,
   created |-> created]

\* the Hp7Api object on its own, left alone
ApiIdle ==
  /\ api_obj = Hp7Api(TRUE)
  /\ api_calls = <<>>
  /\ api_ret = ApiRet("init", FALSE, FALSE, FALSE, FALSE)

\* the config entry before its first setup
EntryInit ==
  /\ now = 0
  /\ apis = <<>>
  /\ registry = 0
  /\ loaded = FALSE
  /\ data = NoData
  /\ last_update_success = TRUE
  /\ refresh_at = NoTime
  /\ update_started = NoTime
  /\ jobs = <<>>
  /\ last_trigger = FreshSensors(NoTime)
  /\ prev_alarm_time = FreshSensors(None)
  /\ off_unsub = FreshSensors(NoTime)
  /\ published = FreshSensors("none")
  /\ loop_timers = {}
  /\ consumed = FreshSensors(<<>>)
  /\ last_op = Op("init", "", "", {}, {})
  /\ coordinator = 0
  /\ reloading = FALSE

\* the call of get_status on its own, left alone
StatusIdle ==
  /\ status_in = [ok |-> FALSE, raw |-> EmptyDict]
  /\ status_out = [done |-> FALSE, value |-> EmptyDict]

\* what async_camera_image returned: whether it raised, the image bytes or
\* None, how many HTTP requests it made and the Authorization header it sent
CamResult(raised, image, requests, authorization) ==
  [raised |-> raised, image |-> image, requests |-> requests,
   authorization |-> authorization]

\* what the HTTP request does: a response (its status; body_ok: whether
\* reading the body returns), a timeout or another error
Http(kind, status, body_ok) ==
  [kind |-> kind, status |-> status, body_ok |-> body_ok]

\* the call of async_camera_image on its own, not made
CameraIdle ==
  /\ cam_in = [data |-> NoData, token |-> NoneDict,
               http |-> Http("error", "", FALSE)]
  /\ cam_out = [done |-> FALSE, result |-> CamResult(FALSE, None, 0, None)]

\* what a step of the configuration flow returned: the form of the user step
\* (errors: "none", "auth" or "cannot_connect") or the step it went on to,
\* whether the credentials were cached and the serials offered
FlowResult(kind, errors, cached_creds, options) ==
  [kind |-> kind, errors |-> errors, cached_creds |-> cached_creds,
   options |-> options]

\* what the device list call does: the serials it returns, or the error it
\* raises ("caught": KeyError, AttributeError or ValueError; "uncaught":
\* another one)
DeviceList(kind, serials) == [kind |-> kind, serials |-> serials]

\* the flow before the user has opened it
FlowStart ==
  [stage |-> "start", result |-> FlowResult("none", "none", FALSE, {})]

\* the configuration flow on its own, not started
FlowIdle ==
  /\ flow_in = [construct_ok |-> TRUE, login |-> "token",
                devices |-> DeviceList("ok", {})]
  /\ flow_out = FlowStart

Init == EntryInit /\ ApiIdle /\ StatusIdle /\ CameraIdle /\ FlowIdle

\* the try block of async_setup_entry going on after an exception of login
\* or detect_capabilities
SetupAuthIgnoringErrors(token, construct_ok, login_ok, probe) ==
  LET l == Login(Hp7Api(token), construct_ok, login_ok)
      d == DetectCapabilities(l.api, construct_ok, login_ok, probe)
  IN [d EXCEPT !.raised = FALSE]

\* the try block of async_setup_entry: Hp7Api(...), login, detect_capabilities
SetupAuth(token, construct_ok, login_ok, probe) ==
  LET l == Login(Hp7Api(token), construct_ok, login_ok)
  IN IF l.raised THEN l
     ELSE DetectCapabilities(l.api, construct_ok, login_ok, probe)

\* what the cloud does during the try block of a setup: whether the entry
\* holds a token, whether EzvizClient(...) and login return, and whether the
\* device-info probe raises an error detect_capabilities does not catch.
\* Inputs that are not read (login_ok with a token held, login_ok and probe
\* after a failed construction, probe after a failed login) are fixed
SetupEnvs ==
  {e \in [token : BOOLEAN, construct_ok : BOOLEAN, login_ok : BOOLEAN,
          probe : {"device", "uncaught"}] :
     /\ e.token => e.login_ok
     /\ ~e.construct_ok => (e.login_ok /\ e.probe = "device")
     /\ ~e.login_ok => e.probe = "device"}

\* why the try block of a setup in environment e fails, or "ok"
AuthOutcome(e) ==
  IF ~e.construct_ok THEN "construct_failed"
  ELSE IF ~e.token /\ ~e.login_ok THEN "login_failed"
  ELSE IF e.probe = "uncaught" THEN "probe_failed"
  ELSE "ok"

\* the record of a setup: as Op, with what the cloud did to the try block
SetupOp(outcome, fetch, auth) ==
  [op |-> "setup", outcome |-> outcome, fetch |-> fetch, trig |-> {},
   active |-> {}, auth |-> auth]

\* async_setup_entry, called by Home Assistant for an entry that is not set
\* up or by async_reload_entry after its unload: the try block, the first
\* refresh, the registration and the platforms' entities. Called while the
\* platforms are still set up (the unload of a reload failed) it registers
\* the new api and coordinator and async_forward_entry_setups raises: the
\* entities stay with the coordinator they have, and nobody sees the data of
\* the new one
SetupEntry ==
  /\ reloading \/ (~loaded /\ registry = 0)
  /\ Len(apis) < MaxSetups
  /\ reloading' = FALSE
  /\ \E e \in SetupEnvs, fetch \in Fetches :
       LET auth == SetupAuth(e.token, e.construct_ok, e.login_ok, e.probe)
           first == GetStatus(auth.api, TRUE, TRUE, fetch)
       IN /\ (auth.raised \/ loaded) => ~fetch.ok
          /\ IF auth.raised \/ first.raised
             THEN /\ last_op' = SetupOp("not_ready",
                                        IF auth.raised THEN "none"
                                        ELSE FetchKind(fetch),
                                        AuthOutcome(e))
                  /\ UNCHANGED <<apis, registry, loaded, data,
                                 last_update_success, refresh_at,
                                 last_trigger, prev_alarm_time, off_unsub,
                                 published, consumed, coordinator>>
             ELSE IF loaded
             THEN /\ apis' = Append(apis, first.api)
                  /\ registry' = Len(apis) + 1
                  /\ last_op' = SetupOp("already_setup", FetchKind(fetch),
                                        AuthOutcome(e))
                  /\ UNCHANGED <<loaded, data, last_update_success,
                                 refresh_at, last_trigger, prev_alarm_time,
                                 off_unsub, published, consumed, coordinator>>
             ELSE /\ apis' = Append(apis, first.api)
                  /\ registry' = Len(apis) + 1
                  /\ coordinator' = Len(apis) + 1
                  /\ loaded' = TRUE
                  /\ data' = first.value
                  /\ last_update_success' = TRUE
                  /\ refresh_at' = RefreshAtAfterUpdate(now)
                  /\ last_trigger' = FreshSensors(NoTime)
                  /\ prev_alarm_time' = FreshSensors(None)
                  /\ off_unsub' = FreshSensors(NoTime)
                  /\ published' = FreshSensors(EntityState(TRUE, NoTime, now))
                  /\ consumed' = FreshSensors(<<>>)
                  /\ last_op' = SetupOp("ok", FetchKind(fetch),
                                        AuthOutcome(e))
  /\ UNCHANGED <<now, update_started, jobs, loop_timers>>
  /\ UNCHANGED unit_vars

\* async_unload_entry, called by Home Assistant or (reload) as the first call
\* of async_reload_entry, which calls async_setup_entry next whatever the
\* unload returned (unload_ok: what async_unload_platforms returns); the
\* removed entities' listeners go, and with them the refresh timer
UnloadEntry ==
  /\ loaded
  /\ ~reloading
  /\ \E unload_ok, reload \in BOOLEAN :
       /\ reload => Len(apis) < MaxSetups
       /\ reloading' = reload
       /\ IF unload_ok
          THEN /\ loaded' = FALSE
               /\ refresh_at' = NoTime
               /\ update_started' = NoTime
               /\ registry' = 0
               /\ apis' = IF registry # 0
                          THEN [apis EXCEPT ![registry] = Close(@)]
                          ELSE apis
               /\ data' = NoData
               /\ last_update_success' = TRUE
               /\ last_trigger' = FreshSensors(NoTime)
               /\ prev_alarm_time' = FreshSensors(None)
               /\ off_unsub' = FreshSensors(NoTime)
               /\ published' = FreshSensors("none")
               /\ consumed' = FreshSensors(<<>>)
               /\ last_op' = Op("unload", "ok", "", {}, {})
          ELSE /\ last_op' = Op("unload", "failed", "", {}, {})
               /\ UNCHANGED <<apis, registry, loaded, data,
                              last_update_success, refresh_at, update_started,
                              last_trigger, prev_alarm_time, off_unsub,
                              published, consumed>>
  /\ UNCHANGED <<now, jobs, loop_timers, coordinator>>
  /\ UNCHANGED unit_vars

\* the refresh timer fires: _async_update_data hands get_status to the executor
RefreshStart ==
  /\ ~reloading
  /\ loaded
  /\ refresh_at # NoTime
  /\ refresh_at <= now
  /\ refresh_at' = RefreshAtWhileUpdating(now)
  /\ update_started' = now
  /\ jobs' = Append(jobs, [gen |-> Gen, stage |-> "queued"])
  /\ last_op' = Op("refresh_start", "", "", {}, {})
  /\ UNCHANGED <<now, apis, registry, loaded, data, last_update_success,
                 last_trigger, prev_alarm_time, off_unsub, published,
                 loop_timers, consumed>>
  /\ UNCHANGED <<coordinator, reloading>>
  /\ UNCHANGED unit_vars

\* the executor thread enters get_status of a queued job: ensure_client; the
\* job of a coordinator whose entry was unloaded ends here, as nobody sees
\* its result
RefreshExec ==
  \E i \in DOMAIN jobs, construct_ok \in BOOLEAN :
    /\ ~reloading
    /\ jobs[i].stage = "queued"
    /\ (apis[jobs[i].gen].client => construct_ok)
    /\ LET r == EnsureClient(apis[jobs[i].gen], construct_ok, TRUE)
           stage == IF r.raised THEN "raised" ELSE "running"
       IN /\ jobs' = IF jobs[i].gen = Gen /\ loaded
                     THEN [jobs EXCEPT ![i].stage = stage]
                     ELSE RemoveAt(jobs, i)
          /\ apis' = [apis EXCEPT ![jobs[i].gen] = r.api]
          /\ last_op' = Op("refresh_exec", stage, "", {}, {})
    /\ UNCHANGED <<now, registry, loaded, data, last_update_success,
                   refresh_at, update_started, last_trigger, prev_alarm_time,
                   off_unsub, published, loop_timers, consumed>>
    /\ UNCHANGED <<coordinator, reloading>>
  /\ UNCHANGED unit_vars

\* the sensors whose is_on is true
Active == {c \in Categories : IsOn(last_trigger[c], now)}

\* the sensors _handle_coordinator_update triggers on data d
Triggered(d) == {c \in Categories : ShouldTrigger(c, d, prev_alarm_time[c])}

RECURSIVE NotifyTimers(_, _, _)
\* the event loop's timers after the sensors in cs have handled data d
NotifyTimers(timers, d, cs) ==
  IF cs = {} THEN timers
  ELSE LET c == CHOOSE x \in cs : TRUE
           after == IF c \in Triggered(d)
                    THEN ScheduleStateUpdate(timers, off_unsub[c], Gen, c, now)
                    ELSE timers
       IN NotifyTimers(after, d, cs \ {c})

\* the coordinator takes the result of a job whose get_status has returned
\* (fetch: what the status call gave) or raised: it stores the data (or
\* keeps it when the update raised), notifies its listeners and arms the
\* refresh timer again; the result of a coordinator whose entry was unloaded
\* is seen by nobody
RefreshDone ==
  \E i \in DOMAIN jobs, fetch \in Fetches :
    /\ ~reloading
    /\ jobs[i].stage # "queued"
    /\ jobs' = RemoveAt(jobs, i)
    /\ IF jobs[i].gen # Gen \/ ~loaded
       THEN /\ ~fetch.ok
            /\ last_op' = Op("refresh_done", "dropped", "", {}, {})
            /\ UNCHANGED <<data, last_update_success, refresh_at,
                           update_started, last_trigger, prev_alarm_time,
                           off_unsub, published, loop_timers, consumed>>
       ELSE LET ok == jobs[i].stage # "raised"
                d == IF ok THEN GetStatusResult(fetch) ELSE data
                trig == Triggered(d)
            IN /\ (~ok => ~fetch.ok)
               /\ data' = d
               /\ last_update_success' = ok
               /\ refresh_at' = RefreshAtAfterUpdate(now)
               /\ update_started' = NoTime
               /\ prev_alarm_time' =
                    [c \in Categories |->
                       IF c \in trig THEN Get(DataOrEmpty(d), ALARM_TIME_FIELD)
                       ELSE prev_alarm_time[c]]
               /\ last_trigger' =
                    [c \in Categories |->
                       IF c \in trig THEN now ELSE last_trigger[c]]
               /\ off_unsub' =
                    [c \in Categories |->
                       IF c \in trig THEN TimerDeadline(now) ELSE off_unsub[c]]
               /\ loop_timers' = NotifyTimers(loop_timers, d, Categories)
               /\ published' =
                    [c \in Categories |->
                       EntityState(ok, last_trigger'[c], now)]
               /\ consumed' =
                    [c \in Categories |->
                       IF c \in trig
                       THEN Append(consumed[c],
                                   Get(DataOrEmpty(d), ALARM_TIME_FIELD))
                       ELSE consumed[c]]
               /\ last_op' = Op("refresh_done",
                                IF ok THEN "delivered" ELSE "failed",
                                IF ok THEN FetchKind(fetch) ELSE "none", trig, Active)
    /\ UNCHANGED <<now, apis, registry, loaded>>
    /\ UNCHANGED <<coordinator, reloading>>
  /\ UNCHANGED unit_vars

\* a pulse-reset timer fires: _cb clears the handle and writes the state; the
\* write does nothing for an entity that has been removed
PulseTimerFire ==
  \E t \in loop_timers :
    /\ ~reloading
    /\ t.deadline <= now
    /\ loop_timers' = loop_timers \ {t}
    /\ IF t.gen = Gen /\ loaded
       THEN /\ off_unsub' = [off_unsub EXCEPT ![t.cat] = NoTime]
            /\ published' =
                 [published EXCEPT
                    ![t.cat] = EntityState(last_update_success,
                                           last_trigger[t.cat], now)]
            /\ last_op' = Op("pulse_off", "written", "", {t.cat}, {})
       ELSE /\ last_op' = Op("pulse_off", "removed", "", {t.cat}, {})
            /\ UNCHANGED <<off_unsub, published>>
    /\ UNCHANGED <<now, apis, registry, loaded, data, last_update_success,
                   refresh_at, update_started, jobs, last_trigger,
                   prev_alarm_time, consumed>>
    /\ UNCHANGED <<coordinator, reloading>>
  /\ UNCHANGED unit_vars

\* one second passes; timers that are due fire before the clock moves on
Tick ==
  /\ ~reloading
  /\ now < MaxTime
  /\ \A t \in loop_timers : t.deadline > now
  /\ (refresh_at = NoTime \/ refresh_at > now)
  /\ now' = now + 1
  /\ last_op' = Op("tick", "", "", {}, {})
  /\ UNCHANGED <<apis, registry, loaded, data, last_update_success,
                 refresh_at, update_started, jobs, last_trigger,
                 prev_alarm_time, off_unsub, published, loop_timers,
                 consumed>>
  /\ UNCHANGED <<coordinator, reloading>>
  /\ UNCHANGED unit_vars

Next ==
  \/ SetupEntry
  \/ UnloadEntry
  \/ RefreshStart
  \/ RefreshExec
  \/ RefreshDone
  \/ PulseTimerFire
  \/ Tick

Spec == Init /\ [][Next]_vars

(* ------------------------ the Hp7Api object alone ----------------------- *)

\* a new Hp7Api, with or without a cached token
ApiInit ==
  /\ EntryInit
  /\ api_obj \in {Hp7Api(token) : token \in BOOLEAN}
  /\ api_calls = <<>>
  /\ api_ret = ApiRet("init", FALSE, FALSE, FALSE, FALSE)
  /\ StatusIdle
  /\ CameraIdle
  /\ FlowIdle

ApiLogin ==
  \E construct_ok, login_ok \in BOOLEAN :
    LET r == Login(api_obj, construct_ok, login_ok)
    IN /\ api_obj' = r.api
       /\ api_calls' = r.calls
       /\ api_ret' = ApiRet("login", r.raised, r.value, r.login,
                         r.api.client /\ ~api_obj.client)
       /\ UNCHANGED non_api_vars

ApiDetectCapabilities ==
  \E construct_ok, login_ok \in BOOLEAN, probe \in Probes :
    LET r == DetectCapabilities(api_obj, construct_ok, login_ok, probe)
    IN /\ api_obj' = r.api
       /\ api_calls' = r.calls
       /\ api_ret' = ApiRet("detect_capabilities", r.raised, probe = "device",
                         r.login, r.api.client /\ ~api_obj.client)
       /\ UNCHANGED non_api_vars

ApiClose ==
  /\ api_obj.logouts < MaxCloses
  /\ api_obj' = Close(api_obj)
  /\ api_calls' = <<>>
  /\ api_ret' = ApiRet("close", FALSE, FALSE, FALSE, FALSE)
  /\ UNCHANGED non_api_vars

ApiUnlockDoor ==
  \E construct_ok, login_ok, ok1, ok2 \in BOOLEAN :
    LET r == UnlockDoor(api_obj, construct_ok, login_ok, ok1, ok2)
    IN /\ api_obj' = r.api
       /\ api_calls' = r.calls
       /\ api_ret' = ApiRet("unlock_door", r.raised, r.value, r.login,
                         r.api.client /\ ~api_obj.client)
       /\ UNCHANGED non_api_vars

ApiUnlockGate ==
  \E construct_ok, login_ok, ok1, ok2 \in BOOLEAN :
    LET r == UnlockGate(api_obj, construct_ok, login_ok, ok1, ok2)
    IN /\ api_obj' = r.api
       /\ api_calls' = r.calls
       /\ api_ret' = ApiRet("unlock_gate", r.raised, r.value, r.login,
                         r.api.client /\ ~api_obj.client)
       /\ UNCHANGED non_api_vars

ApiNext ==
  \/ ApiLogin
  \/ ApiDetectCapabilities
  \/ ApiClose
  \/ ApiUnlockDoor
  \/ ApiUnlockGate

SpecApi == ApiInit /\ [][ApiNext]_vars

(* ------------------------- get_status on its own ------------------------ *)

\* what EzvizCamera.status may give: a raw status with any fields missing,
\* or an exception
StatusFetches ==
  {[ok |-> TRUE, raw |-> r] : r \in PartialStatuses}
    \cup {[ok |-> FALSE, raw |-> EmptyDict]}

StatusInit ==
  /\ EntryInit
  /\ ApiIdle
  /\ status_in \in StatusFetches
  /\ status_out = [done |-> FALSE, value |-> EmptyDict]
  /\ CameraIdle
  /\ FlowIdle

\* get_status on a client that is held: the dict, or {} on any exception
StatusGet ==
  /\ ~status_out.done
  /\ status_out' = [done |-> TRUE, value |-> GetStatusResult(status_in)]
  /\ UNCHANGED status_in
  /\ UNCHANGED non_status_vars

StatusNext == StatusGet

SpecStatus == StatusInit /\ [][StatusNext]_vars

(* ------------------- async_camera_image on its own --------------------- *)

\* the data the coordinator may hold: None, {} or a snapshot whose
\* last_alarm_pic is null, empty or a URL
CameraData ==
  {NoData, EmptyDict}
    \cup {GetStatusResult([ok |-> TRUE, raw |-> [last_alarm_pic |-> pic]]) :
            pic \in {None, "", "https://cloud.example/alarm.jpg"}}

\* the token the api may hold: None, {}, a dict with an access_token or a
\* dict without one
CameraTokens ==
  {NoneDict, EmptyDict, [access_token |-> "at"], [session_id |-> "sid"]}

HttpOutcomes ==
  {Http("response", status, body_ok) :
     status \in {"200", "404"}, body_ok \in BOOLEAN}
    \cup {Http("timeout", "", FALSE), Http("error", "", FALSE)}

CameraInit ==
  /\ EntryInit
  /\ ApiIdle
  /\ StatusIdle
  /\ cam_in \in [data : CameraData, token : CameraTokens, http : HttpOutcomes]
  /\ cam_out = [done |-> FALSE, result |-> CamResult(FALSE, None, 0, None)]
  /\ FlowIdle

\* the camera entity is asked for its image
CameraGet ==
  /\ ~cam_out.done
  /\ cam_out' = [done |-> TRUE,
                 result |-> CameraImage(cam_in.data, cam_in.token,
                                        cam_in.http)]
  /\ UNCHANGED cam_in
  /\ UNCHANGED non_camera_vars

CameraNext == CameraGet

SpecCamera == CameraInit /\ [][CameraNext]_vars

(* ------------- the configuration flow's user step on its own ----------- *)

\* serials the cloud may list: a short one, one with a dash, a long one
SampleSerials ==
  {[text |-> "BA1234567", has_dash |-> FALSE, length |-> 9],
   [text |-> "BA123-4567", has_dash |-> TRUE, length |-> 10],
   [text |-> "BA1234567890", has_dash |-> FALSE, length |-> 12]}

\* what the client's login may do: return a token, raise the ValueError or
\* KeyError of a rejected authentication, or raise another error
LoginOutcomes == {"token", "rejected", "error"}

DeviceLists ==
  {DeviceList("ok", s) : s \in SUBSET SampleSerials}
    \cup {DeviceList("caught", {}), DeviceList("uncaught", {})}

FlowInit ==
  /\ EntryInit
  /\ ApiIdle
  /\ StatusIdle
  /\ CameraIdle
  /\ flow_in \in [construct_ok : BOOLEAN, login : LoginOutcomes,
                   devices : DeviceLists]
  /\ flow_out = FlowStart

\* async_step_user called without input: the form is shown
FlowShowForm ==
  /\ flow_out.stage = "start"
  /\ flow_out' = [stage |-> "form", result |-> StepUser(FALSE, flow_in)]
  /\ UNCHANGED flow_in
  /\ UNCHANGED non_flow_vars

\* async_step_user called with the credentials the user typed
FlowSubmit ==
  /\ flow_out.stage = "form"
  /\ flow_out' = [stage |-> "submitted", result |-> StepUser(TRUE, flow_in)]
  /\ UNCHANGED flow_in
  /\ UNCHANGED non_flow_vars

FlowNext ==
  \/ FlowShowForm
  \/ FlowSubmit

SpecFlow == FlowInit /\ [][FlowNext]_vars

(* ------------------------------- claims -------------------------------- *)

\* a poll has just been delivered to the coordinator's listeners
Delivered == last_op.op = "refresh_done" /\ last_op.outcome # "dropped"

\* the alarm name and the alarm time the sensors read from data d
AlarmNameOf(d) == Get(DataOrEmpty(d), ALARM_FIELD)

AlarmTimeOf(d) == Get(DataOrEmpty(d), ALARM_TIME_FIELD)

\* the event loop's pulse-reset timers of sensor c of generation g
TimersOf(timers, g, c) == {t \in timers : t.gen = g /\ t.cat = c}

\* C1: when the status fetch of a poll fails, the coordinator's snapshot after
\* the refresh is the snapshot it held before (stale but available)
C1_SnapshotRetainedOnFetchFailure ==
  [][(Delivered' /\ last_op'.fetch = "error" /\ DataOrEmpty(data) # EmptyDict)
       => data' = data]_vars

\* C2: a first status fetch that fails ends setup not ready, with nothing
\* registered and no platform set up; a later failure leaves the entry set up
C2_FirstFetchFailureIsNotReady ==
  /\ (last_op.op = "setup" /\ last_op.fetch = "error")
       => (last_op.outcome = "not_ready" /\ registry = 0 /\ ~loaded)
  /\ (Delivered /\ last_op.fetch = "error") => (registry # 0 /\ loaded)

\* what a trigger of sensor c does in a step: the snapshot's alarm time is
\* consumed, last_trigger is now and the reset is scheduled
TriggerEffect(c) ==
  /\ prev_alarm_time'[c] = AlarmTimeOf(data')
  /\ last_trigger'[c] = now
  /\ off_unsub'[c] = now + PULSE_SECONDS
  /\ TimersOf(loop_timers', Gen, c) = {Timer(Gen, c, now + PULSE_SECONDS)}

\* a step leaves sensor c's pulse state alone
NoTriggerEffect(c) ==
  /\ prev_alarm_time'[c] = prev_alarm_time[c]
  /\ last_trigger'[c] = last_trigger[c]
  /\ off_unsub'[c] = off_unsub[c]
  /\ TimersOf(loop_timers', Gen, c) = TimersOf(loop_timers, Gen, c)

\* C3 as stated: on every delivered snapshot a sensor triggers iff the alarm
\* name is in its match set and the alarm time differs from the consumed one
C3_TriggersIffMatchAndNewTime ==
  [][Delivered' =>
       \A c \in Categories :
         IF /\ AlarmNameOf(data') \in ALARM_MAP[c]
            /\ AlarmTimeOf(data') # prev_alarm_time[c]
         THEN c \in last_op'.trig /\ TriggerEffect(c)
         ELSE c \notin last_op'.trig /\ NoTriggerEffect(c)]_vars

\* C3 amended: on every delivered snapshot a sensor triggers iff the alarm
\* name is in its match set, the alarm time is not null and the alarm time
\* differs from the consumed one, from IDLE and from ACTIVE alike
C3_TriggersIffMatchAndNewNonNullTime ==
  [][Delivered' =>
       \A c \in Categories :
         IF /\ AlarmNameOf(data') \in ALARM_MAP[c]
            /\ AlarmTimeOf(data') # None
            /\ AlarmTimeOf(data') # prev_alarm_time[c]
         THEN c \in last_op'.trig /\ TriggerEffect(c)
         ELSE c \notin last_op'.trig /\ NoTriggerEffect(c)]_vars

\* a sensor that was ACTIVE has triggered again and its window starts anew
C3_Witness ==
  /\ Delivered
  /\ \E c \in last_op.trig :
       c \in last_op.active /\ last_trigger[c] = now /\ published[c] = "on"

Range(seq) == {seq[i] : i \in DOMAIN seq}

\* C4 as stated: once a sensor has consumed alarm time T, no later snapshot
\* with a matching alarm name and alarm time T changes last_trigger or the
\* pending reset timer
C4_ConsumedTimeNeverRetriggers ==
  [][Delivered' =>
       \A c \in Categories :
         (/\ AlarmNameOf(data') \in ALARM_MAP[c]
          /\ AlarmTimeOf(data') \in Range(consumed[c]))
           => c \notin last_op'.trig /\ NoTriggerEffect(c)]_vars

\* C4 amended: while T is the alarm time a sensor consumed last, a snapshot
\* with alarm time T changes neither last_trigger nor the pending reset timer,
\* whatever polls came in between; a snapshot with a matching alarm name and
\* another non-null alarm time pulses again; and only a trigger changes the
\* consumed alarm time of a sensor
C4_LastConsumedTimeDoesNotRetrigger ==
  [][/\ Delivered' =>
          \A c \in Categories :
            /\ (consumed[c] # <<>>
                  /\ AlarmTimeOf(data') = consumed[c][Len(consumed[c])])
                 => c \notin last_op'.trig /\ NoTriggerEffect(c)
            /\ (/\ consumed[c] # <<>>
                /\ AlarmNameOf(data') \in ALARM_MAP[c]
                /\ AlarmTimeOf(data') # None
                /\ AlarmTimeOf(data') # consumed[c][Len(consumed[c])])
                 => c \in last_op'.trig /\ TriggerEffect(c)
     /\ (loaded /\ loaded') =>
          \A c \in Categories :
            prev_alarm_time'[c] # prev_alarm_time[c] => c \in last_op'.trig]_vars

\* a snapshot repeating the alarm a sensor consumed last has been delivered
\* after the sensor's pulse had ended, and did nothing
C4_Witness ==
  /\ Delivered
  /\ \E c \in Categories :
       /\ consumed[c] # <<>>
       /\ AlarmNameOf(data) \in ALARM_MAP[c]
       /\ AlarmTimeOf(data) = consumed[c][Len(consumed[c])]
       /\ c \notin last_op.trig
       /\ published[c] = "off"
       /\ off_unsub[c] = NoTime

\* sensor c is within PULSE_SECONDS of its last trigger
InPulseWindow(c) ==
  last_trigger[c] # NoTime /\ now - last_trigger[c] < PULSE_SECONDS

\* C5: the published state of a sensor is on throughout the PULSE_SECONDS after
\* a trigger and at no other time: it is on within the window, at the end of
\* the window it is on only until the reset timer, then due, has fired, the
\* timer's callback publishes off, and off becomes on only by a trigger
C5_PublishedOnForPulseDuration ==
  /\ [](loaded =>
          \A c \in Categories :
            /\ InPulseWindow(c) => published[c] = "on"
            /\ published[c] \in {"on", "off"}
            /\ (published[c] = "on" /\ ~InPulseWindow(c)) =>
                 /\ now - last_trigger[c] = PULSE_SECONDS
                 /\ Timer(Gen, c, now) \in loop_timers)
  /\ [][/\ (last_op'.op = "pulse_off" /\ last_op'.outcome = "written") =>
             \A c \in last_op'.trig : published'[c] = "off"
        /\ (loaded /\ loaded') =>
             \A c \in Categories :
               (published[c] = "off" /\ published'[c] = "on")
                 => (Delivered' /\ c \in last_op'.trig)]_vars

\* the reset timer of a sensor has fired PULSE_SECONDS after its trigger and
\* its published state is off
C5_Witness ==
  /\ last_op.op = "pulse_off"
  /\ last_op.outcome = "written"
  /\ \E c \in last_op.trig :
       /\ published[c] = "off"
       /\ now - last_trigger[c] = PULSE_SECONDS

\* C6: is_on of a sensor equals (last_trigger is not null and now minus
\* last_trigger is less than PULSE_SECONDS), and a sensor that has never
\* triggered is off
C6_IsOnIffWithinPulse ==
  loaded =>
    \A c \in Categories :
      /\ IsOn(last_trigger[c], now)
           <=> (last_trigger[c] # NoTime /\ now - last_trigger[c] < PULSE_SECONDS)
      /\ consumed[c] = <<>> => (last_trigger[c] = NoTime /\ ~IsOn(last_trigger[c], now))

\* a sensor exactly PULSE_SECONDS after its trigger, when is_on is false again
C6_Witness ==
  /\ loaded
  /\ \E c \in Categories :
       /\ consumed[c] # <<>>
       /\ now - last_trigger[c] = PULSE_SECONDS
       /\ ~IsOn(last_trigger[c], now)

C8_OnePendingResetTimer ==
  /\ \A g \in DOMAIN apis, c \in Categories :
       Cardinality(TimersOf(loop_timers, g, c)) <= 1
  /\ loaded =>
       \A c \in Categories :
         TimersOf(loop_timers, Gen, c) =
           IF off_unsub[c] = NoTime THEN {} ELSE {Timer(Gen, c, off_unsub[c])}
  /\ (last_op.op = "pulse_off" /\ last_op.outcome = "written") =>
       \A c \in last_op.trig : off_unsub[c] = NoTime

\* a sensor has triggered while its reset timer was pending, and one timer,
\* the new one, is pending for it
C8_Witness ==
  /\ Delivered
  /\ \E c \in last_op.trig :
       /\ c \in last_op.active
       /\ Len(consumed[c]) > 1
       /\ TimersOf(loop_timers, Gen, c) = {Timer(Gen, c, now + PULSE_SECONDS)}

\* C9: after the entry is unloaded no pulse-reset timer of its sensors is
\* pending: every pending timer belongs to a sensor of the loaded entry
C9_NoPulseTimerAfterUnload ==
  \A t \in loop_timers : loaded /\ t.gen = Gen

\* C10 as stated: every call of async_unload_entry leaves the entry out of the
\* registry, with logout attempted on its client and the handle cleared
C10_UnloadAlwaysReleasesSession ==
  [][last_op'.op = "unload" =>
       /\ registry' = 0
       /\ ~apis'[registry].client
       /\ apis'[registry].logouts = 1]_vars

\* C10 amended: a call of async_unload_entry whose platforms unload leaves the
\* entry out of the registry, with logout attempted once on the client of the
\* api that was registered and the handle cleared; a call whose platforms do
\* not unload leaves the entry registered and its client logged in
C10_UnloadReleasesSessionWhenPlatformsUnload ==
  [][/\ (last_op'.op = "unload" /\ last_op'.outcome = "ok") =>
          /\ registry' = 0
          /\ ~loaded'
          /\ ~apis'[registry].client
          /\ apis'[registry].logouts = 1
     /\ (last_op'.op = "unload" /\ last_op'.outcome = "failed") =>
          /\ registry' = registry
          /\ loaded'
          /\ apis'[registry].client
          /\ apis'[registry].logouts = 0]_vars

\* an unload whose platforms unloaded has returned: the entry is out of the
\* registry and the client of its api has logged out
C10_Witness ==
  /\ last_op.op = "unload"
  /\ last_op.outcome = "ok"
  /\ registry = 0
  /\ \E g \in DOMAIN apis : ~apis[g].client /\ apis[g].logouts = 1

\* the lock numbers of the remote_unlock calls of the last operation
CallNos == [i \in DOMAIN api_calls |-> api_calls[i].lock_no]

IsPrefix(s, t) == Len(s) <= Len(t) /\ \A i \in DOMAIN s : s[i] = t[i]

\* C11: unlock_door calls lock 2 then lock 1 and unlock_gate lock 1 then lock
\* 2, one call per lock number; the fallback is called only after the primary
\* call failed; the action returns true exactly when a call succeeded; with a
\* token held it makes one call when the primary succeeds and two otherwise
C11_UnlockOrderAndResult ==
  api_ret.op \in {"unlock_door", "unlock_gate"} =>
    /\ IsPrefix(CallNos,
                IF api_ret.op = "unlock_door"
                THEN <<DEFAULT_DOOR_LOCK_NO, DEFAULT_GATE_LOCK_NO>>
                ELSE <<DEFAULT_GATE_LOCK_NO, DEFAULT_DOOR_LOCK_NO>>)
    /\ \A i \in DOMAIN api_calls : i < Len(api_calls) => ~api_calls[i].ok
    /\ api_ret.value <=> (\E i \in DOMAIN api_calls : api_calls[i].ok)
    /\ (~api_ret.raised /\ api_obj.token) =>
         /\ api_calls # <<>>
         /\ Len(api_calls) = IF api_calls[1].ok THEN 1 ELSE 2

\* unlock_door has returned true after its call for lock 2 failed and its
\* call for lock 1 succeeded
C11_Witness ==
  /\ api_ret.op = "unlock_door"
  /\ ~api_ret.raised
  /\ api_ret.value
  /\ api_calls = <<[lock_no |-> DEFAULT_DOOR_LOCK_NO, ok |-> FALSE],
                   [lock_no |-> DEFAULT_GATE_LOCK_NO, ok |-> TRUE]>>

\* C12: unlock_door and unlock_gate never raise, whatever the state of the
\* client: every failure is the return value false
C12_UnlockNeverRaises ==
  api_ret.op \in {"unlock_door", "unlock_gate"} => ~api_ret.raised

\* the raw field each field of a Snapshot is taken from
RawKey ==
  [name |-> "name", version |-> "version",
   upgrade_available |-> "upgrade_available", status |-> "status",
   wan_ip |-> "wan_ip", pir_status |-> "PIR_Status",
   motion |-> "Motion_Trigger",
   seconds_last_trigger |-> "Seconds_Last_Trigger",
   last_alarm_time |-> "last_alarm_time",
   last_alarm_pic |-> "last_alarm_pic",
   alarm_name |-> "last_alarm_type_name"]

\* the field k of the network info of raw status r, null when the network
\* info or the field is missing or the network info is null
NetworkField(r, k) ==
  IF "WIFI" \in DOMAIN r /\ r["WIFI"] # NoneDict /\ k \in DOMAIN r["WIFI"]
  THEN r["WIFI"][k]
  ELSE None

\* C13: for a raw status with any subset of fields missing, the network info
\* missing or null included, get_status returns a Snapshot with exactly the
\* fixed fields, null for an absent field and the value of a present one; a
\* missing or null network info nulls only the fields taken from it
C13_PartialStatusGivesFullSnapshot ==
  (status_out.done /\ status_in.ok) =>
    LET r == status_in.raw
        s == status_out.value
    IN /\ DOMAIN s = DOMAIN RawKey \cup {"ssid", "signal", "local_ip"}
       /\ \A f \in DOMAIN RawKey :
            s[f] = IF RawKey[f] \in DOMAIN r THEN r[RawKey[f]] ELSE None
       /\ s["ssid"] = NetworkField(r, "ssid")
       /\ s["signal"] = NetworkField(r, "signal")
       /\ s["local_ip"] = IF "local_ip" \in DOMAIN r THEN r["local_ip"]
                          ELSE NetworkField(r, "address")

\* C14: after a successful poll whose raw status has Motion_Trigger = 1 the
\* motion sensor is on, and after one with Motion_Trigger = 0 it is off
C14_MotionSensorFollowsMotionTrigger ==
  (/\ status_out.done
   /\ status_in.ok
   /\ status_out.value # EmptyDict
   /\ "Motion_Trigger" \in DOMAIN status_in.raw) =>
    (SimpleIsOn(status_out.value, SIMPLE_MAP.motion_trigger)
       <=> status_in.raw["Motion_Trigger"] = "1")

\* C15: at most one alarm sensor triggers on a snapshot: the match sets of the
\* five sensors are pairwise disjoint, every delivered snapshot triggers at
\* most one sensor, and the last trigger time, the consumed alarm time, the
\* timer handle and the pending timers of every other sensor stay as they were
C15_AtMostOneCategoryTriggers ==
  /\ \A c1, c2 \in Categories :
       c1 # c2 => ALARM_MAP[c1] \cap ALARM_MAP[c2] = {}
  /\ [][Delivered' =>
          /\ Cardinality(last_op'.trig) <= 1
          /\ \A c \in Categories \ last_op'.trig : NoTriggerEffect(c)]_vars

\* a snapshot has triggered one sensor while another sensor is on with its
\* reset timer pending
C15_Witness ==
  /\ Delivered
  /\ \E c \in last_op.trig, other \in Categories \ last_op.trig :
       /\ last_op.trig = {c}
       /\ IsOn(last_trigger[other], now)
       /\ off_unsub[other] # NoTime
       /\ TimersOf(loop_timers, Gen, other) # {}

\* C16: a setup whose client construction or login fails ends not ready
\* before any coordinator exists: no status fetch is made, nothing is stored
\* in the registry and no platform is set up
C16_AuthFailureIsNotReadyBeforeCoordinator ==
  [][(last_op'.op = "setup"
        /\ last_op'.auth \in {"construct_failed", "login_failed"}) =>
       /\ last_op'.outcome = "not_ready"
       /\ last_op'.fetch = "none"
       /\ apis' = apis
       /\ registry' = registry
       /\ coordinator' = coordinator
       /\ loaded' = loaded
       /\ data' = data
       /\ published' = published
       /\ jobs' = jobs]_vars

\* a setup whose login failed has ended not ready with the entry not set up
C16_Witness ==
  /\ last_op.op = "setup"
  /\ last_op.auth = "login_failed"
  /\ last_op.outcome = "not_ready"
  /\ apis = <<>>
  /\ registry = 0
  /\ ~loaded

\* C18: the client's login is called exactly by the operation that builds the
\* client while no token is held; with a token held login is never called and
\* the token stays; the held token changes only in an operation that called
\* login
C18_LoginExactlyWhenClientCreatedWithoutToken ==
  [][/\ api_ret'.login <=> (api_ret'.created /\ ~api_obj.token)
     /\ api_obj.token => (api_obj'.token /\ ~api_ret'.login)
     /\ api_obj'.token # api_obj.token => api_ret'.login]_vars

\* an api holding a token has built its client again after a close, without
\* a call of login
C18_Witness ==
  /\ api_ret.created
  /\ ~api_ret.login
  /\ ~api_ret.raised
  /\ api_obj.client
  /\ api_obj.token
  /\ api_obj.logouts = 1

\* C19: supports_door and supports_gate are both true after detect_capabilities
\* has returned, whatever the probe gave, and the unlock-gate and unlock-door
\* buttons are both created
C19_BothCapabilitiesAlwaysTrue ==
  (api_ret.op = "detect_capabilities" /\ ~api_ret.raised) =>
    /\ api_obj.supports_door
    /\ api_obj.supports_gate
    /\ Buttons(api_obj) = {"unlock_gate", "unlock_door"}

\* detect_capabilities has returned after a probe that gave no device
C19_Witness ==
  /\ api_ret.op = "detect_capabilities"
  /\ ~api_ret.raised
  /\ ~api_ret.value
  /\ api_obj.supports_door
  /\ api_obj.supports_gate

\* the alarm-picture URL of the data the camera entity reads
CameraUrl == Get(DataOrEmpty(cam_in.data), "last_alarm_pic")

\* C17: async_camera_image never raises; with no alarm-picture URL in the
\* snapshot it returns no data and makes no HTTP request; with no token held,
\* a response status other than 200, a timeout or any other error it returns
\* no data
C17_CameraImageNeverRaises ==
  cam_out.done =>
    /\ ~cam_out.result.raised
    /\ ~Truthy(CameraUrl) =>
         (cam_out.result.image = None /\ cam_out.result.requests = 0)
    /\ (\/ NoToken(cam_in.token)
        \/ cam_in.http.kind # "response"
        \/ cam_in.http.status # "200"
        \/ ~cam_in.http.body_ok) => cam_out.result.image = None

\* the image was asked for with a URL and a token held, the request timed
\* out and no data was returned
C17_Witness ==
  /\ cam_out.done
  /\ Truthy(CameraUrl)
  /\ ~NoToken(cam_in.token)
  /\ cam_in.http.kind = "timeout"
  /\ cam_out.result.requests = 1
  /\ cam_out.result.image = None
  /\ ~cam_out.result.raised

\* C20: every api created for the entry that is not the one registered has
\* been closed, and a reload does not run setup (registering a new api) when
\* its unload did not succeed
C20_UnregisteredSessionsAreClosed ==
  /\ \A g \in DOMAIN apis : g # registry => ~apis[g].client
  /\ ~(last_op.op = "setup" /\ last_op.outcome = "already_setup")

\* C21: a delivered snapshot whose alarm time is null triggers no sensor, also
\* when its alarm name is in a sensor's match set and the sensor has consumed
\* an alarm time before; it leaves every sensor's last trigger time, consumed
\* alarm time, timer handle and pending timers as they were
C21_NullAlarmTimeNeverTriggers ==
  [][(Delivered' /\ AlarmTimeOf(data') = None) =>
       /\ last_op'.trig = {}
       /\ \A c \in Categories : NoTriggerEffect(c)]_vars

\* a snapshot with a matching alarm name and a null alarm time has been
\* delivered to a sensor that had consumed an alarm time, and did not trigger
C21_Witness ==
  /\ Delivered
  /\ AlarmTimeOf(data) = None
  /\ \E c \in Categories :
       /\ AlarmNameOf(data) \in ALARM_MAP[c]
       /\ consumed[c] # <<>>
       /\ prev_alarm_time[c] # None
       /\ c \notin last_op.trig

\* C22: a sensor that has consumed no alarm time triggers on the first
\* delivered snapshot whose alarm name is in its match set and whose alarm
\* time is not null, whatever that time is; every setup that creates the
\* entities, the setup of a reload included, creates them with no alarm time
\* consumed, so the alarm the device recorded last pulses its sensor again;
\* and a snapshot repeating the alarm time just consumed does not trigger
C22_FreshSensorTriggersOnRecordedAlarm ==
  [][/\ Delivered' =>
          \A c \in Categories :
            /\ (/\ prev_alarm_time[c] = None
                /\ AlarmNameOf(data') \in ALARM_MAP[c]
                /\ AlarmTimeOf(data') # None)
                 => c \in last_op'.trig /\ TriggerEffect(c)
            /\ (prev_alarm_time[c] # None
                  /\ AlarmTimeOf(data') = prev_alarm_time[c])
                 => c \notin last_op'.trig
     /\ (last_op'.op = "setup" /\ last_op'.outcome = "ok") =>
          \A c \in Categories :
            /\ prev_alarm_time'[c] = None
            /\ last_trigger'[c] = NoTime
            /\ off_unsub'[c] = NoTime]_vars

\* after a reload a sensor of the new entities has triggered on the first
\* alarm time it consumed, and is on
C22_Witness ==
  /\ Delivered
  /\ coordinator = 2
  /\ \E c \in last_op.trig :
       /\ Len(consumed[c]) = 1
       /\ prev_alarm_time[c] = AlarmTimeOf(data)
       /\ last_trigger[c] = now
       /\ published[c] = "on"

\* C23: in the user step a login that fails because the authentication is
\* rejected shows the form again with the error auth, any other failure shows
\* it again with cannot_connect, and in neither case does the flow go on to
\* the serial selection or keep the credentials for an entry
C23_UserStepReportsAuthOrCannotConnect ==
  flow_out.stage = "submitted" =>
    /\ (flow_in.construct_ok /\ flow_in.login = "rejected") =>
         (flow_out.result.kind = "form" /\ flow_out.result.errors = "auth")
    /\ (\/ ~flow_in.construct_ok
        \/ flow_in.login = "error"
        \/ (flow_in.login = "token" /\ flow_in.devices.kind = "uncaught")) =>
         (/\ flow_out.result.kind = "form"
          /\ flow_out.result.errors = "cannot_connect")
    /\ flow_out.result.errors # "none" =>
         (flow_out.result.kind = "form" /\ ~flow_out.result.cached_creds)

====
